---- MODULE Spec2Model ----
(***************************************************************************)
(* Model of old_vers/config_module.bak.py: the provisioning client of the  *)
(* Rewst remote agent.  fetch_configuration is modelled as a state machine *)
(* with one step per statement group of its retry loop; the endpoint is    *)
(* the environment and answers every request with any outcome.             *)
(***************************************************************************)
EXTENDS Integers, Sequences, FiniteSets, TLC

VARIABLES
    pc,              \* position of fetch_configuration
    schedule,        \* retry_intervals as bound at line 91
    phase,           \* index of the (interval, max_retries) pair of the for loop
    retries,         \* the counter of the while loop
    secret,          \* the argument secret of fetch_configuration
    hostname,        \* what socket.gethostname() answers at this moment
    host_info,       \* the dict built at lines 73-85
    headers,         \* the dict built at lines 87-89
    response,        \* outcome of the client.post being handled (a response or
                     \* an exception); NoResponse once the attempt is over
    result,          \* value returned to the caller
    error,           \* exception that left fetch_configuration
    request,         \* json and headers of the request sent last
    first_request,   \* json and headers of the first request sent
    nreq,            \* requests sent so far
    nsleep,          \* asyncio.sleep calls completed so far
    slept,           \* set of the intervals slept so far
    uniform,         \* what all outcomes handled so far had in common
    os_type,         \* what platform.system() answers
    probe,           \* what dsregcmd, nltest and the service list answer
    healthy,         \* the endpoint answers every request with a valid 200
    fs,              \* the filesystem: directories and files
    call             \* the last call of a function of lines 31-68

\* What fetch_configuration reads and never writes.
env == <<os_type, probe, healthy, fs, call>>

vars == <<pc, secret, schedule, phase, retries, hostname, host_info, headers, response,
          result, error, request, first_request, nreq, nsleep, slept, uniform,
          os_type, probe, healthy, fs, call>>

----------------------------------------------------------------------------
\* Bounds of the model.

\* Attempts explored inside a phase whose max_retries is float('inf').
MaxUnboundedAttempts == 2
\* Largest max_retries of a phase of a schedule reduced for testing.
MaxTestAttempts == 2
\* Largest interval of a phase of a schedule reduced for testing.
MaxTestInterval == 2
\* Calls of get_config_file_path, save_configuration and load_configuration
\* explored on one machine.
MaxCalls == 2

----------------------------------------------------------------------------
\* Constants of the program.

None == "None"

REQUIRED_KEYS ==
    {"azure_iot_hub_host", "device_id", "shared_access_key",
     "rewst_engine_host", "rewst_org_id"}

\* A key the server may add to a configuration beside the required ones.
ExtraKeys == {"extra_setting"}

Phase(i, m) == [interval |-> i, max_retries |-> m, unbounded |-> FALSE]
\* max_retries = float('inf'): the field max_retries is not read.
UnboundedPhase(i) == [interval |-> i, max_retries |-> 0, unbounded |-> TRUE]

retry_intervals == <<Phase(5, 12), Phase(60, 60), UnboundedPhase(300)>>

\* retry_intervals reduced for testing to two finite phases.
ReducedSchedules ==
    { <<Phase(i1, m1), Phase(i2, m2)>> :
        i1 \in 1..MaxTestInterval, m1 \in 1..MaxTestAttempts,
        i2 \in 1..MaxTestInterval, m2 \in 1..MaxTestAttempts }

----------------------------------------------------------------------------
\* The endpoint: what one client.post can end in (lines 98-110).

\* The value of data.get('configuration') (line 116), by what line 117 does
\* with it.  "absent": the member is missing, get answers None.  "null": a
\* falsy value that is no container (null, false, 0).  "scalar": a truthy
\* value that is no container (true, a non-zero number), on which `in`
\* raises.  "container": a JSON object (or an array or a string), with the
\* set of the names that `in` finds in it; rev tells two containers with the
\* same names and different values apart.
Absent == [type |-> "absent", keys |-> {}, rev |-> 0]
Null == [type |-> "null", keys |-> {}, rev |-> 0]
Scalar == [type |-> "scalar", keys |-> {}, rev |-> 0]
Container(K, r) == [type |-> "container", keys |-> K, rev |-> r]

ValidDocuments ==
    { Container(REQUIRED_KEYS \cup E, r) : E \in {{}, ExtraKeys}, r \in 1..2 }

InvalidDocuments ==
    { Container(REQUIRED_KEYS \ {k}, 1) : k \in REQUIRED_KEYS }
        \cup { Container({}, 1), Container(ExtraKeys, 1) }

Configurations ==
    {Absent, Null, Scalar} \cup ValidDocuments \cup InvalidDocuments

NoResponse == [kind |-> "none", status |-> 0, json |-> "none", configuration |-> Absent]

\* httpx.TimeoutException and the other httpx.RequestError leave client.post.
TransportFailures ==
    { [kind |-> k, status |-> 0, json |-> "none", configuration |-> Absent] :
        k \in {"timeout", "network"} }

\* A response whose status is not 200: its body is never read.
StatusResponses ==
    { [kind |-> "response", status |-> s, json |-> "none", configuration |-> Absent] :
        s \in {303, 400, 401, 500} }

\* A 200 whose body is no JSON text, is a JSON value other than an object,
\* or is an object (with or without the member 'configuration').
OkResponses ==
    { [kind |-> "response", status |-> 200, json |-> j, configuration |-> Absent] :
        j \in {"invalid", "nonobject"} }
        \cup { [kind |-> "response", status |-> 200, json |-> "object", configuration |-> c] :
                 c \in Configurations }

Outcomes == TransportFailures \cup StatusResponses \cup OkResponses

\* What an endpoint in good order answers: a 200 with a complete configuration.
HealthyResponses ==
    { [kind |-> "response", status |-> 200, json |-> "object", configuration |-> c] :
        c \in ValidDocuments }

----------------------------------------------------------------------------
\* Line 117: the test that decides whether config_data is returned.

\* Python truth value of config_data.
Truthy(c) == c.type = "scalar" \/ (c.type = "container" /\ c.keys # {})

\* `key in config_data` raises TypeError when config_data is no container.
MembershipRaises(c) == c.type = "scalar"

AllRequiredKeys(c) == \A key \in REQUIRED_KEYS : key \in c.keys

\* Mutant: the test of line 117 without its all(...) conjunct.
IsValidConfig_TruthyOnly(c) == Truthy(c)

\* Mutant: any(...) in the place of all(...).
IsValidConfig_AnyKey(c) == Truthy(c) /\ \E key \in REQUIRED_KEYS : key \in c.keys

\* config_data and all(key in config_data for key in REQUIRED_KEYS)
IsValidConfig(c) == Truthy(c) /\ AllRequiredKeys(c)

\* Mutant: the returned document is cut down to the required keys.
ReturnValue_RequiredOnly(c) == [c EXCEPT !.keys = @ \cap REQUIRED_KEYS]

\* Line 118: the value handed to the caller.
ReturnValue(c) == c

----------------------------------------------------------------------------
\* Lines 73-89: the payload and the headers of every request.

Hostnames == {"host-a", "host-b"}

NoHostInfo ==
    [agent_version |-> "unset", executable_path |-> "unset", hostname |-> "unset",
     mac_address |-> "unset", operating_system |-> "unset", cpu_model |-> "unset",
     ram_gb |-> "unset", is_ad_domain_controller |-> FALSE,
     is_entra_connect_server |-> FALSE, ad_domain |-> "unset",
     entra_domain |-> "unset"]

\* platform.system(): the three families of lines 35-40 and any other one.
OsTypes == {"Windows", "Linux", "Darwin", "Other"}

\* What `dsregcmd /status` does: "missing" the command cannot be started
\* (FileNotFoundError), "failed" it exits non-zero with no output, "plain" its
\* output names no domain, "ad" its output has a line `Domain Name : corp.local`,
\* "entra" its output has `AzureAdJoined : YES` and `DomainName : contoso`,
\* "both" it has all of them, "nocolon" the lines are there without a colon.
DsregOutcomes == {"missing", "failed", "plain", "ad", "entra", "both", "nocolon"}

\* What `nltest /dclist:<domain>` does: it cannot be started, it exits
\* non-zero, its output lists this host or it lists other hosts only.
NltestOutcomes == {"missing", "failed", "lists_host", "lists_others"}

\* What psutil.win_service_iter() does: it raises, it lists no service of
\* potential_service_names, or it lists ADSync.
ServiceOutcomes == {"raises", "none", "adsync"}

Probes ==
    [dsregcmd : DsregOutcomes, nltest : NltestOutcomes, services : ServiceOutcomes]

\* A machine without dsregcmd and nltest.
PlainProbe == [dsregcmd |-> "missing", nltest |-> "missing", services |-> "none"]

\* Lines 159-174.  CalledProcessError (check=True), FileNotFoundError and
\* the IndexError of split(':')[1] are caught and answered with None.
get_ad_domain_name(os, p) ==
    IF os # "Windows" THEN None
    ELSE IF p.dsregcmd \in {"ad", "both"} THEN "corp.local"
    ELSE None

\* Lines 177-190: no test of the platform; every exception is caught.
get_entra_domain(p) ==
    IF p.dsregcmd \in {"entra", "both"} THEN "contoso" ELSE None

\* Lines 139-156.
is_domain_controller(os, p) ==
    IF os # "Windows" THEN FALSE
    ELSE IF get_ad_domain_name(os, p) = None THEN FALSE
    ELSE p.nltest = "lists_host"

\* Lines 203-207, on Windows: the loop over psutil.win_service_iter() is not
\* inside a try, an exception of the iteration leaves the function.
ServiceLookupRaises(os, p) == os = "Windows" /\ p.services = "raises"

\* Lines 193-200, when is_service_running does not raise.
is_entra_connect_server(os, p) ==
    IF os # "Windows" THEN FALSE ELSE p.services = "adsync"

\* Line 82: the exception of is_entra_connect_server leaves the dict literal.
CollectRaises(os, p) == ServiceLookupRaises(os, p)

\* Mutant: the payload under the field names of the data model.
CollectHostInfo_Renamed(h, os, p) ==
    [agent_version |-> "__version__", executable_path |-> "sys.executable",
     hostname |-> h, mac_address |-> "mac", os_description |-> "platform",
     cpu_model |-> "processor", ram_gb |-> "ram",
     is_domain_controller |-> is_domain_controller(os, p),
     is_entra_connect_server |-> is_entra_connect_server(os, p),
     ad_domain |-> get_ad_domain_name(os, p),
     entra_domain |-> get_entra_domain(p)]

\* The dict literal of lines 73-85, read from the machine as it is now.
CollectHostInfo(h, os, p) ==
    [agent_version |-> "__version__", executable_path |-> "sys.executable",
     hostname |-> h, mac_address |-> "mac", operating_system |-> "platform",
     cpu_model |-> "processor", ram_gb |-> "ram",
     is_ad_domain_controller |-> is_domain_controller(os, p),
     is_entra_connect_server |-> is_entra_connect_server(os, p),
     ad_domain |-> get_ad_domain_name(os, p),
     entra_domain |-> get_entra_domain(p)]

\* The values of the argument secret: the default None, the empty string and
\* a non-empty string.
Secrets == {None, "", "s3cret"}

\* Mutant: `if secret is not None` in the place of `if secret`.
BuildHeaders_NotNone(s) ==
    IF s # None THEN {[name |-> "x-rewst-secret", value |-> s]} ELSE {}

\* Lines 87-89: `if secret:` is false for None and for the empty string.
BuildHeaders(s) ==
    IF s # None /\ s # "" THEN {[name |-> "x-rewst-secret", value |-> s]} ELSE {}

NoRequest == [json |-> NoHostInfo, headers |-> {}]

\* Mutant: the payload is collected again for every request.
RequestJson_Recollected == CollectHostInfo(hostname, os_type, probe)

\* Lines 98-103: json=host_info, headers=headers.
RequestJson == host_info
RequestHeaders == headers
BuildRequest == [json |-> RequestJson, headers |-> RequestHeaders]

----------------------------------------------------------------------------
\* The loops of lines 92-128.

NoResult == [type |-> "None", keys |-> {}, rev |-> 0]

\* Mutant: the loop steps over every other pair.
NextPhase_Skip(p) == p + 2

\* Line 92: the for loop takes the pairs of retry_intervals in list order.
NextPhase(p) == p + 1

\* Mutant: the phase is left one attempt early.
LoopContinues_Early(r, ph) == ph.unbounded \/ r + 1 < ph.max_retries

\* Mutant: the phase is left one attempt late.
LoopContinues_Late(r, ph) == ph.unbounded \/ r <= ph.max_retries

\* Line 94: while retries < max_retries (always true for float('inf')).
LoopContinues(r, ph) == ph.unbounded \/ r < ph.max_retries

\* Mutant: every sleep lasts the interval of the first pair.
SleepInterval_First == schedule[1].interval

\* Line 126: the argument of asyncio.sleep.
SleepInterval == schedule[phase].interval

\* What all outcomes handled so far (the one of the returning or raising
\* attempt excluded) have in common: 0 before the first one, 303, 401 or 200
\* while every one was a response of that status, -1 otherwise.
OutcomeClass(o) ==
    IF o.kind = "response" /\ o.status \in {303, 401, 200} THEN o.status ELSE -1
Merge(u, o) ==
    IF u = 0 \/ u = OutcomeClass(o) THEN OutcomeClass(o) ELSE -1

\* ---- The configuration file: lines 31-68 ----

\* A path is its directory, as the sequence of its components, and its name.
Path(d, n) == [dir |-> d, name |-> n]

\* config_file = None, the default of lines 31, 55 and 62.
NoPath == Path(<<>>, "None")

\* Values of the argument config_file: a file in a directory that exists on
\* every machine of the model and a file in a directory that may not exist.
OverridePaths == {Path(<<"opt", "agent">>, "agent.json"), Path(<<"srv", "new">>, "agent.json")}
ConfigFiles == {NoPath} \cup OverridePaths

\* Values of rewst_org_id; the argument org_id may also keep its default.
OrgIds == {"acme", "globex"}
OrgArgs == {None} \cup OrgIds

\* os.environ.get('PROGRAMDATA') and os.path.expanduser('~').
ProgramData == <<"C:", "ProgramData">>
Home == <<"Users", "agent">>

\* Lines 34-40.  The f-strings of lines 38 and 40 format None as the text
\* None, which is what None is here, and line 36 joins '' for it, which
\* adds no component.  No branch binds config_dir on another platform.
ConfigDirBound(os) == os \in {"Windows", "Linux", "Darwin"}
config_dir(os, org_id) ==
    IF os = "Windows"
    THEN ProgramData \o <<"RewstRemoteAgent">> \o (IF org_id # None THEN <<org_id>> ELSE <<>>)
    ELSE IF os = "Linux"
    THEN <<"etc", "rewst_remote_agent", org_id>>
    ELSE Home \o <<"Library", "Application Support", "RewstRemoteAgent", org_id>>

\* Line 50.
config_file_path(os, org_id) == Path(config_dir(os, org_id), "config.json")

\* Mutant: the override is honoured only when no org_id is given.
Resolves_OrgFirst(org_id, config_file) == config_file # NoPath /\ org_id = None

\* Line 32: a config_file that is given is returned as it is.
Resolves(org_id, config_file) == config_file # NoPath

\* os.makedirs(d): d and every directory above it.
Prefixes(d) == {SubSeq(d, 1, k) : k \in 1..Len(d)}
makedirs(f, d) == [f EXCEPT !.dirs = @ \cup Prefixes(d)]

\* config_data: the value under rewst_org_id, or Missing when the key is not
\* there, and the kind of the other values: "json" strings and numbers,
\* "list" a list, "tuple" a tuple, "set" a set.
Missing == "<missing>"
ConfigData(org, v) == [rewst_org_id |-> org, values |-> v]
NoData == ConfigData(None, "None")
Documents ==
    {ConfigData("acme", "json"), ConfigData("globex", "json"), ConfigData("acme", "tuple"),
     ConfigData("globex", "set"), ConfigData(Missing, "json")}
WellFormed(d) == d.rewst_org_id \in OrgIds /\ d.values \in {"json", "list"}

\* The text of a file is the sequence of what was written to it.
Text(k, org, v) == [kind |-> k, org |-> org, values |-> v]
Garbage == Text("corrupt", None, "None")
NullText == Text("null", None, "None")

\* json.dump(config_data, f, indent=4), line 59: a tuple is written as an
\* array; a set is not serialisable, the encoder raises TypeError after the
\* text before it has been written.
DumpRaises(d) == d.values = "set"
Dump(d) ==
    IF DumpRaises(d) THEN Garbage
    ELSE Text("object", d.rewst_org_id, IF d.values = "tuple" THEN "list" ELSE d.values)

\* json.load(f), line 66: one JSON value and nothing else; an array is
\* read as a list, the text null as None.
LoadRaises(t) == Len(t) # 1 \/ t[1].kind = "corrupt"
Load(t) ==
    IF t[1].kind = "object" THEN ConfigData(t[1].org, t[1].values) ELSE NoData

\* open(config_file_path, 'w'), line 58: what the file held is dropped.
Written(old, t) == <<t>>

\* The filesystem: the directories that exist and the files with their text.
HasFile(f, p) == \E x \in f.files : x.path = p
TextAt(f, p) == IF HasFile(f, p) THEN (CHOOSE x \in f.files : x.path = p).text ELSE <<>>
WithFile(f, p, t) ==
    [f EXCEPT !.files = {x \in @ : x.path # p} \cup {[path |-> p, text |-> t]}]
BareFs == [dirs |-> Prefixes(<<"opt", "agent">>), files |-> {}]

\* What a file found on the machine may hold: nothing, something that is
\* not JSON, the text null, a configuration saved earlier.
FoundTexts == {<<>>, <<Garbage>>, <<NullText>>, <<Dump(ConfigData("globex", "json"))>>}

\* The machines: nothing saved yet, or one file where the agent looks for it.
Filesystems(os) ==
    {BareFs}
      \cup {WithFile(BareFs, Path(<<"opt", "agent">>, "agent.json"), t) : t \in FoundTexts}
      \cup (IF ConfigDirBound(os)
            THEN {WithFile(makedirs(BareFs, config_dir(os, "acme")),
                           config_file_path(os, "acme"), t) : t \in FoundTexts}
            ELSE {})

\* The environment of one call: the process may lack the right to create
\* the directory or to open the file.
Denials == {"none", "makedirs", "open"}

\* A call of lines 31-68 and how it ended.
Call(n, op, org_id, config_file, data, denied, outcome, path, loaded, exc) ==
    [n |-> n, op |-> op, org_id |-> org_id, config_file |-> config_file, data |-> data,
     denied |-> denied, outcome |-> outcome, path |-> path, loaded |-> loaded,
     error |-> exc]
NoCall == Call(0, "none", None, NoPath, NoData, "none", "none", NoPath, NoData, None)

\* Lines 31-52 as a function of the machine: how the call ends, the path it
\* returns, the exception it raises and the filesystem it leaves.
ResolveResult(outcome, path, exc, f) ==
    [outcome |-> outcome, path |-> path, error |-> exc, fs |-> f]
get_config_file_path(os, f, denied, org_id, config_file) ==
    IF Resolves(org_id, config_file)
    THEN ResolveResult("return", config_file, None, f)
    ELSE IF ~ConfigDirBound(os)
    THEN ResolveResult("raise", NoPath, "UnboundLocalError", f)
    ELSE IF config_dir(os, org_id) \in f.dirs
    THEN ResolveResult("return", config_file_path(os, org_id), None, f)
    ELSE IF denied = "makedirs"
    THEN ResolveResult("raise", NoPath, "PermissionError", f)
    ELSE ResolveResult("return", config_file_path(os, org_id), None,
                       makedirs(f, config_dir(os, org_id)))

\* The state at the call of fetch_configuration: a secret of S and a
\* schedule of Sch, on a machine of platform os with the filesystem f, whose
\* commands and services answer p.
InitFetch(S, Sch, os, p, f) ==
    /\ pc = "start"
    /\ secret \in S
    /\ schedule \in Sch
    /\ phase = 0
    /\ retries = 0
    /\ hostname \in Hostnames
    /\ host_info = NoHostInfo
    /\ headers = {}
    /\ response = NoResponse
    /\ result = NoResult
    /\ error = None
    /\ request = NoRequest
    /\ first_request = NoRequest
    /\ nreq = 0
    /\ nsleep = 0
    /\ slept = {}
    /\ uniform = 0
    /\ os_type = os
    /\ probe = p
    /\ healthy = FALSE
    /\ fs = f
    /\ call = NoCall

\* The call with a secret of S on a Linux machine where nothing is saved.
InitWith(S) ==
    InitFetch(S, {retry_intervals} \cup ReducedSchedules, "Linux", PlainProbe, BareFs)

\* fetch_configuration(config_url): secret keeps its default, None.
Init == InitWith({None})

\* fetch_configuration(config_url, secret), for every kind of secret.
InitSecret == InitWith(Secrets)

\* The machine is renamed while the agent runs.
Rename ==
    /\ pc \notin {"returned", "raised", "cancelled"}
    /\ hostname' \in Hostnames \ {hostname}
    /\ UNCHANGED <<env, pc, secret, schedule, phase, retries, host_info, headers, response,
                   result, error, request, first_request, nreq, nsleep, slept,
                   uniform>>

\* Lines 73-89.  When a lookup raises, the exception leaves
\* fetch_configuration before host_info is bound.
Collect ==
    /\ pc = "start"
    /\ IF CollectRaises(os_type, probe)
       THEN /\ error' = "OSError"
            /\ pc' = "raised"
            /\ UNCHANGED <<host_info, headers>>
       ELSE /\ host_info' = CollectHostInfo(hostname, os_type, probe)
            /\ headers' = BuildHeaders(secret)
            /\ pc' = "for"
            /\ UNCHANGED error
    /\ UNCHANGED <<env, secret, schedule, phase, retries, hostname, response, result,
                   request, first_request, nreq, nsleep, slept, uniform>>

\* Lines 92-93: the for loop binds the next pair and resets the counter.
EnterPhase ==
    /\ pc = "for"
    /\ phase < Len(schedule)
    /\ phase' = NextPhase(phase)
    /\ retries' = 0
    /\ pc' = "while"
    /\ UNCHANGED <<env, secret, schedule, hostname, host_info, headers, response, result,
                   error, request, first_request, nreq, nsleep, slept, uniform>>

\* Line 129, reached when the for loop runs out of pairs: logging.INFO is the
\* integer 20, and calling it raises TypeError.
FallThrough ==
    /\ pc = "for"
    /\ phase >= Len(schedule)
    /\ error' = "TypeError"
    /\ pc' = "raised"
    /\ UNCHANGED <<env, secret, schedule, phase, retries, hostname, host_info, headers,
                   response, result, request, first_request, nreq, nsleep,
                   slept, uniform>>

\* Lines 94-103: the while test holds, the counter is incremented and the
\* request is sent.
Attempt ==
    /\ pc = "while"
    /\ LoopContinues(retries, schedule[phase])
    /\ schedule[phase].unbounded => retries < MaxUnboundedAttempts
    /\ retries' = retries + 1
    /\ request' = BuildRequest
    /\ first_request' = IF nreq = 0 THEN BuildRequest ELSE first_request
    /\ nreq' = nreq + 1
    /\ pc' = "post"
    /\ UNCHANGED <<env, secret, schedule, phase, hostname, host_info, headers, response,
                   result, error, nsleep, slept, uniform>>

\* Lines 94 and 128: the while test fails, the phase is left.
LeavePhase ==
    /\ pc = "while"
    /\ ~LoopContinues(retries, schedule[phase])
    /\ pc' = "for"
    /\ UNCHANGED <<env, secret, schedule, phase, retries, hostname, host_info, headers,
                   response, result, error, request, first_request, nreq,
                   nsleep, slept, uniform>>

\* Lines 98-110: client.post ends, in a response or in an exception.
Receive ==
    /\ pc = "post"
    /\ \E o \in (IF healthy THEN HealthyResponses ELSE Outcomes) : response' = o
    /\ pc' = "classify"
    /\ UNCHANGED <<env, secret, schedule, phase, retries, hostname, host_info, headers,
                   result, error, request, first_request, nreq, nsleep, slept,
                   uniform>>

\* Lines 104-110: TimeoutException or RequestError; `continue` goes back to
\* the while test, past the sleep of line 126.
TransportError ==
    /\ pc = "classify"
    /\ response.kind \in {"timeout", "network"}
    /\ uniform' = Merge(uniform, response)
    /\ response' = NoResponse
    /\ pc' = "while"
    /\ UNCHANGED <<env, secret, schedule, phase, retries, hostname, host_info, headers,
                   result, error, request, first_request, nreq, nsleep, slept>>

\* Lines 112-113 and 121-124: a status other than 200 is logged.
StatusNot200 ==
    /\ pc = "classify"
    /\ response.kind = "response"
    /\ response.status # 200
    /\ uniform' = Merge(uniform, response)
    /\ response' = NoResponse
    /\ pc' = "sleep"
    /\ UNCHANGED <<env, secret, schedule, phase, retries, hostname, host_info, headers,
                   result, error, request, first_request, nreq, nsleep, slept>>

\* Line 115: response.json() raises on a body that is no JSON text.
JsonRaises ==
    /\ pc = "classify"
    /\ response.kind = "response"
    /\ response.status = 200
    /\ response.json = "invalid"
    /\ error' = "JSONDecodeError"
    /\ pc' = "raised"
    /\ UNCHANGED <<env, secret, schedule, phase, retries, hostname, host_info, headers,
                   response, result, request, first_request, nreq, nsleep,
                   slept, uniform>>

\* Line 116: data.get raises on a JSON value that is no object.
GetRaises ==
    /\ pc = "classify"
    /\ response.kind = "response"
    /\ response.status = 200
    /\ response.json = "nonobject"
    /\ error' = "AttributeError"
    /\ pc' = "raised"
    /\ UNCHANGED <<env, secret, schedule, phase, retries, hostname, host_info, headers,
                   response, result, request, first_request, nreq, nsleep,
                   slept, uniform>>

\* Line 117: `key in config_data` raises on a truthy config_data that is no
\* container.
InRaises ==
    /\ pc = "classify"
    /\ response.kind = "response"
    /\ response.status = 200
    /\ response.json = "object"
    /\ Truthy(response.configuration)
    /\ MembershipRaises(response.configuration)
    /\ error' = "TypeError"
    /\ pc' = "raised"
    /\ UNCHANGED <<env, secret, schedule, phase, retries, hostname, host_info, headers,
                   response, result, request, first_request, nreq, nsleep,
                   slept, uniform>>

\* Lines 117-118: the configuration is returned.
ReturnConfig ==
    /\ pc = "classify"
    /\ response.kind = "response"
    /\ response.status = 200
    /\ response.json = "object"
    /\ ~(Truthy(response.configuration) /\ MembershipRaises(response.configuration))
    /\ IsValidConfig(response.configuration)
    /\ result' = ReturnValue(response.configuration)
    /\ pc' = "returned"
    /\ UNCHANGED <<env, secret, schedule, phase, retries, hostname, host_info, headers,
                   response, error, request, first_request, nreq, nsleep,
                   slept, uniform>>

\* Lines 119-120: the configuration is refused and the attempt goes on to the
\* sleep.
\* Mutant: the refused document is written to disk before the next attempt.
RefuseConfig_Persisting ==
    /\ pc = "classify"
    /\ response.kind = "response"
    /\ response.status = 200
    /\ response.json = "object"
    /\ ~(Truthy(response.configuration) /\ MembershipRaises(response.configuration))
    /\ ~IsValidConfig(response.configuration)
    /\ uniform' = Merge(uniform, response)
    /\ response' = NoResponse
    /\ pc' = "sleep"
    /\ fs' = WithFile(fs, Path(<<"opt", "agent">>, "agent.json"), <<Garbage>>)
    /\ UNCHANGED <<os_type, probe, healthy, call, secret, schedule, phase, retries, hostname,
                   host_info, headers, result, error, request, first_request, nreq,
                   nsleep, slept>>

RefuseConfig ==
    /\ pc = "classify"
    /\ response.kind = "response"
    /\ response.status = 200
    /\ response.json = "object"
    /\ ~(Truthy(response.configuration) /\ MembershipRaises(response.configuration))
    /\ ~IsValidConfig(response.configuration)
    /\ uniform' = Merge(uniform, response)
    /\ response' = NoResponse
    /\ pc' = "sleep"
    /\ UNCHANGED <<env, secret, schedule, phase, retries, hostname, host_info, headers,
                   result, error, request, first_request, nreq, nsleep, slept>>

\* Line 126: await asyncio.sleep(interval) completes.
Sleep ==
    /\ pc = "sleep"
    /\ nsleep' = nsleep + 1
    /\ slept' = slept \cup {SleepInterval}
    /\ pc' = "while"
    /\ UNCHANGED <<env, secret, schedule, phase, retries, hostname, host_info, headers,
                   response, result, error, request, first_request, nreq,
                   uniform>>

Next ==
    \/ Rename
    \/ Collect
    \/ EnterPhase
    \/ FallThrough
    \/ Attempt
    \/ LeavePhase
    \/ Receive
    \/ TransportError
    \/ StatusNot200
    \/ JsonRaises
    \/ GetRaises
    \/ InRaises
    \/ ReturnConfig
    \/ RefuseConfig
    \/ Sleep

Spec == Init /\ [][Next]_vars

\* ---- The configuration file ----

\* Lines 55-59 as a function of the machine.  Line 56 raises KeyError when
\* the key is missing; line 58 raises when the directory of the path does
\* not exist or the file may not be opened; line 59 writes, up to the value
\* that cannot be written.
save_configuration(os, f, denied, d, config_file) ==
    LET r == get_config_file_path(os, f, denied, d.rewst_org_id, config_file)
    IN  IF d.rewst_org_id = Missing
        THEN [outcome |-> "raise", path |-> NoPath, error |-> "KeyError", fs |-> f]
        ELSE IF r.outcome = "raise"
        THEN r
        ELSE IF r.path.dir \notin r.fs.dirs
        THEN [r EXCEPT !.outcome = "raise", !.error = "FileNotFoundError"]
        ELSE IF denied = "open"
        THEN [r EXCEPT !.outcome = "raise", !.error = "PermissionError"]
        ELSE [outcome |-> IF DumpRaises(d) THEN "raise" ELSE "return",
              path |-> r.path,
              error |-> IF DumpRaises(d) THEN "TypeError" ELSE None,
              fs |-> WithFile(r.fs, r.path, Written(TextAt(r.fs, r.path), Dump(d)))]

\* Mutant: except Exception in the place of except FileNotFoundError.
load_configuration_CatchAll(os, f, denied, org_id, config_file) ==
    LET r == get_config_file_path(os, f, denied, org_id, config_file)
    IN  IF r.outcome = "raise"
        THEN [outcome |-> "raise", path |-> NoPath, loaded |-> NoData, error |-> r.error,
              fs |-> r.fs]
        ELSE IF ~HasFile(r.fs, r.path) \/ denied = "open" \/ LoadRaises(TextAt(r.fs, r.path))
        THEN [outcome |-> "return", path |-> r.path, loaded |-> NoData, error |-> None,
              fs |-> r.fs]
        ELSE [outcome |-> "return", path |-> r.path, loaded |-> Load(TextAt(r.fs, r.path)),
              error |-> None, fs |-> r.fs]

\* Lines 62-68 as a function of the machine.  FileNotFoundError is the one
\* exception caught; a file that may not be read and a text json.load
\* rejects raise.
load_configuration(os, f, denied, org_id, config_file) ==
    LET r == get_config_file_path(os, f, denied, org_id, config_file)
    IN  IF r.outcome = "raise"
        THEN [outcome |-> "raise", path |-> NoPath, loaded |-> NoData, error |-> r.error,
              fs |-> r.fs]
        ELSE IF ~HasFile(r.fs, r.path)
        THEN [outcome |-> "return", path |-> r.path, loaded |-> NoData, error |-> None,
              fs |-> r.fs]
        ELSE IF denied = "open"
        THEN [outcome |-> "raise", path |-> r.path, loaded |-> NoData,
              error |-> "PermissionError", fs |-> r.fs]
        ELSE IF LoadRaises(TextAt(r.fs, r.path))
        THEN [outcome |-> "raise", path |-> r.path, loaded |-> NoData,
              error |-> "JSONDecodeError", fs |-> r.fs]
        ELSE [outcome |-> "return", path |-> r.path, loaded |-> Load(TextAt(r.fs, r.path)),
              error |-> None, fs |-> r.fs]

\* What the store operations leave alone.
fetch == <<pc, secret, schedule, phase, retries, hostname, host_info, headers, response,
           result, error, request, first_request, nreq, nsleep, slept, uniform,
           os_type, probe, healthy>>

\* A call of get_config_file_path(org_id, config_file).
CallGetConfigFilePath ==
    /\ call.n < MaxCalls
    /\ \E org_id \in OrgArgs, config_file \in ConfigFiles, denied \in Denials :
          LET r == get_config_file_path(os_type, fs, denied, org_id, config_file)
          IN  /\ fs' = r.fs
              /\ call' = Call(call.n + 1, "get_config_file_path", org_id, config_file, NoData,
                              denied, r.outcome, r.path, NoData, r.error)
    /\ UNCHANGED fetch

\* A call of save_configuration(config_data, config_file).
CallSaveConfiguration ==
    /\ call.n < MaxCalls
    /\ \E d \in Documents, config_file \in ConfigFiles, denied \in Denials :
          LET r == save_configuration(os_type, fs, denied, d, config_file)
          IN  /\ fs' = r.fs
              /\ call' = Call(call.n + 1, "save_configuration", None, config_file, d,
                              denied, r.outcome, r.path, NoData, r.error)
    /\ UNCHANGED fetch

\* A call of load_configuration(org_id, config_file).
CallLoadConfiguration ==
    /\ call.n < MaxCalls
    /\ \E org_id \in OrgArgs, config_file \in ConfigFiles, denied \in Denials :
          LET r == load_configuration(os_type, fs, denied, org_id, config_file)
          IN  /\ fs' = r.fs
              /\ call' = Call(call.n + 1, "load_configuration", org_id, config_file, NoData,
                              denied, r.outcome, r.path, r.loaded, r.error)
    /\ UNCHANGED fetch

\* The machines the configuration is saved and loaded on.
InitStore ==
    /\ hostname = "host-a"
    /\ \E os \in OsTypes : \E f \in Filesystems(os) :
          InitFetch({None}, {retry_intervals}, os, PlainProbe, f)

NextStore ==
    \/ CallGetConfigFilePath
    \/ CallSaveConfiguration
    \/ CallLoadConfiguration

\* The agent resolving the path of its configuration, saving and loading it.
SpecStore == InitStore /\ [][NextStore]_vars

\* ---- The machines of the host lookups ----

\* fetch_configuration on every platform, whatever dsregcmd, nltest and the
\* service list answer, under one schedule reduced for testing.
InitHost ==
    \E os \in OsTypes, p \in Probes :
        InitFetch({None}, {<<Phase(1, 1), Phase(2, 1)>>}, os, p, BareFs)

SpecHost == InitHost /\ [][Next]_vars

\* ---- The endpoint comes into good order ----

\* From the next request on, the endpoint answers every request with a 200
\* and a complete configuration.
Recover ==
    /\ ~healthy
    /\ pc \notin {"returned", "raised", "cancelled"}
    /\ healthy' = TRUE
    /\ UNCHANGED <<os_type, probe, fs, call, pc, secret, schedule, phase, retries, hostname,
                   host_info, headers, response, result, error, request, first_request,
                   nreq, nsleep, slept, uniform>>

InitRecover ==
    InitFetch({None}, {retry_intervals} \cup ReducedSchedules, "Linux", PlainProbe, BareFs)

NextRecover == Next \/ Recover

\* fetch_configuration against an endpoint that comes into good order.
SpecRecover == InitRecover /\ [][NextRecover]_vars

\* ---- Cancellation ----

\* The caller cancels the task: CancelledError is raised at the await of
\* line 98 or of line 126 and no except clause of lines 104-110 catches it.
Cancel ==
    /\ pc \in {"post", "sleep"}
    /\ error' = "CancelledError"
    /\ pc' = "cancelled"
    /\ UNCHANGED <<env, secret, schedule, phase, retries, hostname, host_info, headers,
                   response, result, request, first_request, nreq, nsleep, slept,
                   uniform>>

\* The machines fetch_configuration is cancelled on: any filesystem, the
\* schedules reduced for testing (no step of lines 71-129 touches a file,
\* whatever the intervals are).
InitCancel ==
    \E f \in Filesystems("Linux") :
        InitFetch({None}, ReducedSchedules, "Linux", PlainProbe, f)

NextCancel == Next \/ Cancel

\* fetch_configuration under a caller that may cancel it.
SpecCancel == InitCancel /\ [][NextCancel]_vars

\* The same program, called with any secret.  The loops of lines 92-128 never
\* read secret or headers: the properties of the requests sent are stated
\* for SpecSecret, the properties of the loops for Spec.
SpecSecret == InitSecret /\ [][Next]_vars

----------------------------------------------------------------------------
\* Vocabulary of the properties.

\* A step of fetch_configuration (every one of them moves pc).
FetchStep == pc' # pc

\* A 200 whose configuration is a document with every required key.
ValidOk(r) ==
    /\ r.kind = "response" /\ r.status = 200 /\ r.json = "object"
    /\ r.configuration.type = "container"
    /\ REQUIRED_KEYS \subseteq r.configuration.keys

\* A 200 whose configuration is absent, null, empty or lacks a required key.
InvalidOk(r) ==
    /\ r.kind = "response" /\ r.status = 200 /\ r.json = "object"
    /\ \/ r.configuration.type \in {"absent", "null"}
       \/ /\ r.configuration.type = "container"
          /\ ~(REQUIRED_KEYS \subseteq r.configuration.keys)

\* Every request answered so far was answered 401.
Always401 ==
    /\ uniform = 401
    /\ \/ response = NoResponse
       \/ response.kind = "response" /\ response.status = 401

\* Attempts of the phases before phase p, all of them finite.
BudgetBefore(p) ==
    IF p <= 1 THEN 0
    ELSE IF p = 2 THEN schedule[1].max_retries
    ELSE schedule[1].max_retries + schedule[2].max_retries

----------------------------------------------------------------------------
\* C1: a value reaches the caller only if it is the configuration of a
\* status-200 response and holds every key of REQUIRED_KEYS; in every other
\* state nothing has been returned.
C1_OnlyValidSurfaced ==
    /\ pc = "returned" =>
          /\ response.kind = "response" /\ response.status = 200
          /\ response.json = "object"
          /\ result = response.configuration
          /\ result.type = "container"
          /\ REQUIRED_KEYS \subseteq result.keys
    /\ pc # "returned" => result = NoResult

\* A document with an extra key was returned after refused attempts.
C1_Witness ==
    /\ pc = "returned" /\ nreq > 2 /\ uniform = 200
    /\ result.keys = REQUIRED_KEYS \cup ExtraKeys

\* C2: when the first request is answered 200 with a document holding every
\* required key, that very document is returned, after one request and no
\* sleep.
C2_FirstAttemptSuccess ==
    [][ (pc = "classify" /\ nreq = 1 /\ ValidOk(response) /\ FetchStep) =>
            /\ pc' = "returned"
            /\ result' = response.configuration
            /\ nreq' = 1
            /\ nsleep' = 0 /\ slept' = {}
            /\ error' = None ]_vars

C2_Witness ==
    /\ pc = "returned" /\ nreq = 1 /\ nsleep = 0
    /\ result = Container(REQUIRED_KEYS \cup ExtraKeys, 2)

\* C3: with the schedule of the program, N < 12 answers of 303 followed by a
\* valid 200 end the call at request N+1, after N sleeps, all of 5 seconds,
\* inside the first phase.
C3_ProcessingThenSuccess ==
    [][ (/\ schedule = retry_intervals
         /\ pc = "classify" /\ FetchStep
         /\ uniform \in {0, 303}
         /\ nreq - 1 < 12
         /\ ValidOk(response)) =>
            /\ pc' = "returned"
            /\ result' = response.configuration
            /\ nreq' = nreq
            /\ nsleep' = nreq - 1
            /\ slept' \subseteq {5}
            /\ phase' = 1 ]_vars

\* N = 11: the twelfth request is answered with the configuration.
C3_Witness ==
    /\ schedule = retry_intervals
    /\ pc = "returned" /\ uniform = 303
    /\ nreq = 12 /\ nsleep = 11 /\ slept = {5} /\ phase = 1

\* C4: an attempt answered 200 with an absent, empty or incomplete
\* configuration does not return; it goes to the sleep, the sleep lasts the
\* interval of the phase of the attempt, and what follows the sleep is the
\* next request, in the same phase or, the budget used up, in the next one.
C4_InvalidConfigRetries ==
    [][ FetchStep =>
          /\ (pc = "classify" /\ InvalidOk(response)) =>
                /\ pc' = "sleep"
                /\ result' = NoResult /\ error' = None
                /\ nreq' = nreq /\ phase' = phase
          /\ pc = "sleep" =>
                /\ pc' = "while"
                /\ nsleep' = nsleep + 1
                /\ slept' = slept \cup {schedule[phase].interval}
                /\ phase' = phase
          /\ pc = "while" =>
                \/ pc' = "post" /\ nreq' = nreq + 1 /\ phase' = phase
                \/ /\ pc' = "for"
                   /\ ~schedule[phase].unbounded
                   /\ retries = schedule[phase].max_retries
          /\ (pc = "for" /\ phase < Len(schedule)) =>
                pc' = "while" /\ phase' = phase + 1 /\ retries' = 0 ]_vars

\* Every outcome so far was a refused 200, and the request in flight is the
\* first one of the second phase, sent after twelve sleeps of 5 seconds.
C4_Witness ==
    /\ schedule = retry_intervals
    /\ pc = "post" /\ uniform = 200
    /\ phase = 2 /\ retries = 1 /\ nreq = 13 /\ nsleep = 12 /\ slept = {5}

\* C5: between two consecutive requests of a call there is exactly one
\* sleep, whatever the earlier request ended in; so while a request is in
\* flight or being handled, one sleep fewer than requests has been made.
C5_SleepBetweenRequests ==
    pc \in {"post", "classify"} => nsleep = nreq - 1

\* C6: with the schedule of the program the call ends only by returning a
\* valid configuration; no exception leaves it.
C6_NeverFails ==
    schedule = retry_intervals => (pc # "raised" /\ error = None)

\* C7: 400 and 401 go to the sleep; with two finite phases and an endpoint
\* that always answers 401 the call leaves the loops having sent m1 + m2
\* requests, slept after each one at the interval of its phase, and returned
\* nothing.
C7_RetryThroughRejection ==
    [][ FetchStep =>
          /\ (/\ pc = "classify" /\ response.kind = "response"
              /\ response.status \in {400, 401}) =>
                pc' = "sleep" /\ result' = NoResult /\ error' = None
          /\ (schedule \in ReducedSchedules /\ Always401') =>
                /\ phase' = 1 => nreq' = retries'
                /\ phase' = 2 => nreq' = schedule[1].max_retries + retries'
                /\ pc' \in {"post", "classify", "sleep"} => nsleep' = nreq' - 1
                /\ pc' \in {"while", "for", "raised"} => nsleep' = nreq'
                /\ nsleep' = nsleep + 1 =>
                      slept' = slept \cup {schedule[phase].interval}
                /\ result' = NoResult
          /\ (schedule \in ReducedSchedules /\ Always401' /\ pc' = "raised") =>
                /\ phase' = 2
                /\ error' = "TypeError"
                /\ nreq' = schedule[1].max_retries + schedule[2].max_retries
                /\ nsleep' = nreq'
                /\ slept' = {schedule[1].interval, schedule[2].interval} ]_vars

\* Both phases are used up by 401 answers.
C7_Witness ==
    /\ schedule = <<Phase(1, 2), Phase(2, 2)>>
    /\ Always401 /\ pc = "raised"
    /\ nreq = 4 /\ nsleep = 4 /\ slept = {1, 2}

\* C8: the phases are taken in list order: the phase index moves by one at a
\* time and never back, a phase is left only with its whole budget used and
\* nothing returned, and inside a phase the counter only grows.
C8_PhasesInOrder ==
    [][ /\ phase' # phase =>
            /\ phase' = phase + 1
            /\ retries' = 0
            /\ result = NoResult /\ result' = NoResult
            /\ phase >= 1 =>
                  /\ ~schedule[phase].unbounded
                  /\ retries = schedule[phase].max_retries
        /\ phase' = phase =>
            retries' = retries \/ retries' = retries + 1 ]_vars

C8_Witness ==
    /\ schedule = retry_intervals
    /\ phase = 3 /\ pc = "post" /\ retries = 2

\* C9: every request takes one attempt of the budget of its phase: the
\* counter stays within the budget, the requests sent are the budgets of the
\* phases left plus the counter, and with the schedule of the program
\* request 73 is the first one of the unbounded phase.
C9_AttemptBudget ==
    /\ phase = 0 => nreq = 0 /\ retries = 0
    /\ phase >= 1 =>
          /\ retries >= 0
          /\ ~schedule[phase].unbounded => retries <= schedule[phase].max_retries
          /\ nreq = BudgetBefore(phase) + retries
    /\ schedule = retry_intervals =>
          /\ phase = 1 => nreq <= 12
          /\ phase = 2 => nreq >= 12 /\ nreq <= 72
          /\ nreq >= 73 => phase = 3 /\ retries = nreq - 72

\* Request 73 is in flight and no sleep was made: the 72 requests before it
\* all ended in a transport failure or a timeout.
C9_Witness ==
    /\ schedule = retry_intervals
    /\ pc = "post" /\ nreq = 73 /\ nsleep = 0
    /\ phase = 3 /\ retries = 1

\* C10: the payload and the headers are built once, before the first
\* request, and every request carries what the first one carried.
C10_PayloadFixed ==
    /\ pc = "start" => nreq = 0 /\ host_info = NoHostInfo
    /\ nreq >= 1 =>
          /\ request = first_request
          /\ request.json = host_info
          /\ request.headers = headers
          /\ host_info # NoHostInfo

\* The machine was renamed after the collection, and requests of two phases
\* carried the same payload and secret header.
C10_Witness ==
    /\ phase = 2 /\ pc = "post" /\ nreq >= 3
    /\ hostname # host_info.hostname
    /\ request = first_request
    /\ request.headers # {}

----------------------------------------------------------------------------
\* C11: fetch_configuration never changes the filesystem: no step of it, up
\* to its return, its failure or its cancellation during a request or a
\* sleep, creates, writes or removes a file or a directory.
C11_FilesystemUntouched == [][fs' = fs]_vars

\* The call was cancelled at an await after two requests and a sleep, on a
\* machine that holds a saved configuration file.
C11_Witness ==
    /\ pc = "cancelled"
    /\ nreq >= 2
    /\ nsleep >= 1
    /\ fs.files # {}

----------------------------------------------------------------------------
\* Vocabulary of the properties of lines 31-68.

\* This step is a call of op.
Calls(op) == call'.n = call.n + 1 /\ call'.op = op

\* The last call saved a well-formed document and this step loads from
\* where it was saved: the same config_file, or no config_file and the
\* org_id of the document.
LoadAfterSave ==
    /\ call.op = "save_configuration"
    /\ WellFormed(call.data)
    /\ Calls("load_configuration")
    /\ call'.config_file = call.config_file
    /\ call.config_file = NoPath => call'.org_id = call.data.rewst_org_id

\* The call was not refused a permission by the machine, and the machine is
\* of a platform lines 35-40 know.
Permitted(c) == c.error # "PermissionError" /\ ConfigDirBound(os_type)

\* C12: on a machine that refuses nothing, save_configuration(D, path)
\* followed by load_configuration of the same path, or of the org_id of D
\* when no path is given, yields D, for every well-formed D and every path,
\* whatever the file held.
C12_SaveThenLoad ==
    [][(LoadAfterSave /\ Permitted(call) /\ Permitted(call'))
          => (call.outcome = "return" /\ call'.outcome = "return" /\ call'.loaded = call.data)]_vars

----------------------------------------------------------------------------
\* C13: load_configuration, once the path is resolved, returns None and
\* raises nothing when no file exists at the path; when the file exists and
\* may not be read or does not hold JSON, it raises and does not return None.
C13_AbsentOnlyWhenMissing ==
    [][(Calls("load_configuration") /\ call'.path # NoPath)
          => /\ ~HasFile(fs, call'.path)
                  => (call'.outcome = "return" /\ call'.loaded = NoData /\ call'.error = None)
             /\ (HasFile(fs, call'.path)
                   /\ (call'.denied = "open" \/ LoadRaises(TextAt(fs, call'.path))))
                  => (call'.outcome = "raise" /\ call'.error # None)]_vars

\* load_configuration returned None for a path in a directory that does not
\* exist, on a machine that holds another file.
C13_Witness ==
    /\ call.op = "load_configuration"
    /\ call.outcome = "return"
    /\ call.loaded = NoData
    /\ call.path.dir \notin fs.dirs
    /\ fs.files # {}

\* load_configuration raised on a file that holds no JSON.
C13_CorruptRaises ==
    /\ call.op = "load_configuration"
    /\ call.outcome = "raise"
    /\ call.error = "JSONDecodeError"
    /\ HasFile(fs, call.path)

----------------------------------------------------------------------------
\* The directory of the convention of a platform, above the one of the org.
ConventionDir(os) ==
    IF os = "Windows" THEN <<"C:", "ProgramData", "RewstRemoteAgent">>
    ELSE IF os = "Linux" THEN <<"etc", "rewst_remote_agent">>
    ELSE <<"Users", "agent", "Library", "Application Support", "RewstRemoteAgent">>

\* C14: a get_config_file_path that returns, returns the config_file it was
\* given, whatever org_id and the platform are; given none and an org_id, it
\* returns config.json in the directory <org_id> of the convention directory
\* of the platform, /etc/rewst_remote_agent/acme/config.json for acme on
\* Linux; nothing else of the machine enters the result.
C14_PathByConvention ==
    [][(Calls("get_config_file_path") /\ call'.outcome = "return")
          => /\ call'.config_file # NoPath => call'.path = call'.config_file
             /\ (call'.config_file = NoPath /\ call'.org_id # None)
                  => call'.path = [dir |-> ConventionDir(os_type) \o <<call'.org_id>>,
                                   name |-> "config.json"]
             /\ (call'.config_file = NoPath /\ call'.org_id = "acme" /\ os_type = "Linux")
                  => call'.path = [dir |-> <<"etc", "rewst_remote_agent", "acme">>,
                                   name |-> "config.json"]]_vars

\* get_config_file_path('acme') returned on Linux.
C14_Witness ==
    /\ call.op = "get_config_file_path"
    /\ call.outcome = "return"
    /\ call.org_id = "acme"
    /\ call.config_file = NoPath
    /\ os_type = "Linux"

\* get_config_file_path returned for an org_id and a config_file.
C14_OverrideReturned ==
    /\ call.op = "get_config_file_path"
    /\ call.outcome = "return"
    /\ call.org_id = "globex"
    /\ call.config_file # NoPath
    /\ os_type = "Windows"

----------------------------------------------------------------------------
\* C15: after a get_config_file_path that returned, the directory of the
\* returned path exists.
C15_DirectoryExists ==
    (call.op = "get_config_file_path" /\ call.outcome = "return")
        => call.path.dir \in fs.dirs

----------------------------------------------------------------------------
\* C16: no failure of a lookup of the host description aborts
\* fetch_configuration: the call never fails before its first request.
C16_LookupsNeverAbort == nreq = 0 => pc # "raised"

----------------------------------------------------------------------------
\* The header of the secret, as a request carries it.
SecretHeader(v) == [name |-> "x-rewst-secret", value |-> v]

\* C17 as stated: every request carries x-rewst-secret with the secret
\* when secret is not None, the empty string included, and no such header
\* when it is None.
C17_HeaderIffSupplied ==
    nreq >= 1 =>
        request.headers = (IF secret # None THEN {SecretHeader(secret)} ELSE {})

\* C17, amended: every request carries x-rewst-secret with the secret when
\* the secret is a non-empty string, and no such header when it is None or
\* the empty string.
C17_HeaderIffNonEmpty ==
    nreq >= 1 =>
        request.headers = (IF secret \notin {None, ""} THEN {SecretHeader(secret)} ELSE {})

\* A third request went out with the header of a non-empty secret.
C17_Witness ==
    /\ secret = "s3cret"
    /\ nreq >= 3 /\ pc = "post"
    /\ request.headers = {SecretHeader("s3cret")}

\* A request went out without the header, the secret being the empty string.
C17_EmptySecret ==
    /\ secret = ""
    /\ nreq >= 2 /\ pc = "post"
    /\ request.headers = {}

----------------------------------------------------------------------------
\* C18 as stated: the keys of the JSON body are the field names of the
\* data model.
C18_KeysOfDataModel ==
    nreq >= 1 =>
        DOMAIN request.json =
            {"agent_version", "executable_path", "hostname", "mac_address", "os_description",
             "cpu_model", "ram_gb", "is_domain_controller", "is_entra_connect_server",
             "ad_domain", "entra_domain"}

\* C18, amended: the keys of the JSON body of every request are those of
\* the dict of lines 73-85, operating_system and is_ad_domain_controller
\* among them in the place of os_description and is_domain_controller.
C18_KeysOfPayload ==
    nreq >= 1 =>
        DOMAIN request.json =
            {"agent_version", "executable_path", "hostname", "mac_address", "operating_system",
             "cpu_model", "ram_gb", "is_ad_domain_controller", "is_entra_connect_server",
             "ad_domain", "entra_domain"}

\* A second request went out from a Windows domain controller.
C18_Witness ==
    /\ nreq >= 2 /\ pc = "post"
    /\ os_type = "Windows"
    /\ request.json.is_ad_domain_controller
    /\ request.json.ad_domain = "corp.local"

----------------------------------------------------------------------------
\* C19: under the schedule of line 91, once the endpoint answers every
\* request with a 200 and a complete configuration, fetch_configuration
\* ends in no other way than by returning, whatever was answered before.
C19_ReturnsOnceHealthy ==
    (schedule = retry_intervals /\ healthy /\ pc \in {"returned", "raised"})
        => pc = "returned"

====
